---- MODULE Spec2Model ----
(***************************************************************************)
(* Model of the SVG normalizer of src/app/page.tsx.                        *)
(*                                                                         *)
(* Text is modelled at the level the regular expressions of the source     *)
(* look at it: a document is a sequence of elements (tags, in document     *)
(* order), an element has a tag name and a sequence of attributes, an      *)
(* attribute has a name, a quote style ("dq" for name="..", "sq" for       *)
(* name='..') and a value, and a value is a sequence of tokens (the        *)
(* whitespace-separated words and numbers of the value).                   *)
(*                                                                         *)
(* Numbers are integers counting thousandths (1.5 is 1500), the precision  *)
(* of p.round(3).  Scaling is exact rational arithmetic rounded half away  *)
(* from zero as Number.prototype.toFixed does; the binary floating point   *)
(* error of the source (about 1e-16) is below this resolution.             *)
(*                                                                         *)
(* The path mini-language is modelled for the commands M m L l H h V v Z z;*)
(* curves and arcs are outside the model.  `SvgPath` is the npm package    *)
(* svgpath called at lines 71-82: its parser never throws, it records the  *)
(* error in `err` and keeps the segments parsed before the error.          *)
(***************************************************************************)
EXTENDS Integers, Sequences, FiniteSets, TLC

(***************************************************************************)
(* Tokens, attributes, elements                                            *)
(***************************************************************************)
Num(n) == [c |-> "#", n |-> n]

Word(w) == [c |-> w, n |-> 0]

IsNum(t) == t.c = "#"

Attr(name, q, val) == [name |-> name, q |-> q, val |-> val]

Elem(tag, attrs) == [tag |-> tag, attrs |-> attrs]

\* The attributes of a document in text order.
RECURSIVE AllAttrs(_)
AllAttrs(content) ==
  IF content = <<>> THEN <<>>
  ELSE Head(content).attrs \o AllAttrs(Tail(content))

\* String.prototype.match without /g: the first of the matches, if any.
FirstMatch(hits) ==
  IF hits = <<>> THEN [found |-> FALSE, val |-> <<>>]
  ELSE [found |-> TRUE, val |-> hits[1].val]

\* /viewBox="([^"]+)"/i : a double-quoted, non-empty value.
vbMatch(content) ==
  FirstMatch(SelectSeq(AllAttrs(content),
                       LAMBDA a: a.name = "viewBox" /\ a.q = "dq" /\ a.val /= <<>>))

\* ([\d.]+)(px)? between the quotes: an unsigned number, optionally px.
IsLength(v) ==
  /\ Len(v) \in {1, 2}
  /\ IsNum(v[1]) /\ v[1].n >= 0
  /\ Len(v) = 2 => v[2] = Word("px")

\* /\swidth="([\d.]+)(px)?"/i
wMatch(content) ==
  FirstMatch(SelectSeq(AllAttrs(content),
                       LAMBDA a: a.name = "width" /\ a.q = "dq" /\ IsLength(a.val)))

\* /\sheight="([\d.]+)(px)?"/i
hMatch(content) ==
  FirstMatch(SelectSeq(AllAttrs(content),
                       LAMBDA a: a.name = "height" /\ a.q = "dq" /\ IsLength(a.val)))

\* Steps 1 and 2 of processSvgContent: minX, minY, oldWidth, oldHeight;
\* `known` is FALSE while oldWidth or oldHeight is still null.
InferFrame(content) ==
  LET vb == vbMatch(content)
      parts == vb.val
      w == wMatch(content)
      h == hMatch(content)
  IN  IF vb.found /\ Len(parts) = 4 /\ \A i \in 1..4 : IsNum(parts[i])
      THEN [known |-> TRUE, minX |-> parts[1].n, minY |-> parts[2].n,
            oldWidth |-> parts[3].n, oldHeight |-> parts[4].n]
      ELSE IF w.found /\ h.found
      THEN [known |-> TRUE, minX |-> 0, minY |-> 0,
            oldWidth |-> w.val[1].n, oldHeight |-> h.val[1].n]
      ELSE [known |-> FALSE, minX |-> 0, minY |-> 0, oldWidth |-> 0, oldHeight |-> 0]

\* if (!oldWidth || !oldHeight) throw
NoDimensions(frame) == ~frame.known \/ frame.oldWidth = 0 \/ frame.oldHeight = 0

(***************************************************************************)
(* svgpath: parse                                                          *)
(***************************************************************************)
Seg(cmd, args) == [cmd |-> cmd, args |-> args]

Commands == {"M", "m", "L", "l", "H", "h", "V", "v", "Z", "z"}

IsRelative(cmd) == cmd \in {"m", "l", "h", "v", "z"}

paramCounts(cmd) ==
  CASE cmd \in {"M", "m", "L", "l"} -> 2
    [] cmd \in {"H", "h", "V", "v"} -> 1
    [] OTHER -> 0

\* The number of consecutive number tokens of toks from index i on.
RECURSIVE NumRun(_, _)
NumRun(toks, i) ==
  IF i > Len(toks) \/ ~IsNum(toks[i]) THEN 0 ELSE 1 + NumRun(toks, i + 1)

\* finalizeSegment: the operands in groups of the command's arity, an
\* incomplete last group dropped; the groups after the first of a moveto
\* are linetos.
finalizeSegment(cmd, data) ==
  LET need == paramCounts(cmd)
      next == IF cmd = "M" THEN "L" ELSE IF cmd = "m" THEN "l" ELSE cmd
  IN  IF need = 0 THEN << Seg(cmd, <<>>) >>
      ELSE [g \in 1..(Len(data) \div need) |->
              Seg(IF g = 1 THEN cmd ELSE next,
                  [k \in 1..need |-> data[(g - 1) * need + k].n])]

\* scanSegment in the loop of pathParse, from token i on: the segments up
\* to the first error (a token that is no command, a missing operand).
RECURSIVE ScanFrom(_, _)
ScanFrom(toks, i) ==
  IF i > Len(toks) THEN <<>>
  ELSE IF toks[i].c \notin Commands THEN <<>>
  ELSE LET cmd == toks[i].c
           need == paramCounts(cmd)
           run == IF need = 0 THEN 0 ELSE NumRun(toks, i + 1)
           data == SubSeq(toks, i + 1, i + run)
           err == need > 0 /\ (run = 0 \/ run % need /= 0)
       IN  IF err THEN finalizeSegment(cmd, data)
           ELSE finalizeSegment(cmd, data) \o ScanFrom(toks, i + 1 + run)

\* pathParse: a path that does not start with a moveto is empty; the first
\* moveto is made absolute.
pathParse(toks) ==
  LET result == ScanFrom(toks, 1)
  IN  IF result = <<>> THEN <<>>
      ELSE IF result[1].cmd \notin {"M", "m"} THEN <<>>
      ELSE << Seg("M", result[1].args) >> \o Tail(result)

\* The loop of pathParse ends on an error: a token that is no command, or a
\* command whose operands are not a whole number of groups.
RECURSIVE ScanErr(_, _)
ScanErr(toks, i) ==
  IF i > Len(toks) THEN FALSE
  ELSE IF toks[i].c \notin Commands THEN TRUE
  ELSE LET need == paramCounts(toks[i].c)
           run == IF need = 0 THEN 0 ELSE NumRun(toks, i + 1)
       IN  IF need > 0 /\ (run = 0 \/ run % need /= 0) THEN TRUE
           ELSE ScanErr(toks, i + 1 + run)

\* The err of the parsed path: non-empty when the string is malformed.  It
\* is a field the caller may read; nothing is thrown.
pathErr(toks) ==
  \/ ScanErr(toks, 1)
  \/ ScanFrom(toks, 1) /= <<>> /\ ScanFrom(toks, 1)[1].cmd \notin {"M", "m"}

\* new SvgPath(d) in the try block: whether the constructor throws.
SvgPathThrows(toks) == FALSE

(***************************************************************************)
(* svgpath: translate, scale, round, toString                              *)
(***************************************************************************)
\* p.translate(tx, ty): absolute operands move, relative ones do not.
translate(segs, tx, ty) ==
  [i \in 1..Len(segs) |->
     LET s == segs[i]
     IN  IF IsRelative(s.cmd) THEN s
         ELSE CASE s.cmd \in {"M", "L"} -> Seg(s.cmd, << s.args[1] + tx, s.args[2] + ty >>)
                [] s.cmd = "H" -> Seg(s.cmd, << s.args[1] + tx >>)
                [] s.cmd = "V" -> Seg(s.cmd, << s.args[1] + ty >>)
                [] OTHER -> s]

Abs(n) == IF n < 0 THEN -n ELSE n

RECURSIVE Gcd(_, _)
Gcd(a, b) == IF b = 0 THEN a ELSE Gcd(b, a % b)

\* size / old as a fraction in lowest terms with a positive denominator.
Ratio(size, old) ==
  LET g == Gcd(Abs(size), Abs(old))
      sgn == IF old < 0 THEN -1 ELSE 1
  IN  [num |-> sgn * (size \div g), den |-> Abs(old) \div g]

\* p.scale(sx, sy): every operand times its axis's factor.  The operands of
\* the result are numerators over sx.den (x axis) and sy.den (y axis).
scale(segs, sx, sy) ==
  [i \in 1..Len(segs) |->
     LET s == segs[i]
     IN  CASE s.cmd \in {"M", "m", "L", "l"} -> Seg(s.cmd, << s.args[1] * sx.num, s.args[2] * sy.num >>)
           [] s.cmd \in {"H", "h"} -> Seg(s.cmd, << s.args[1] * sx.num >>)
           [] s.cmd \in {"V", "v"} -> Seg(s.cmd, << s.args[1] * sy.num >>)
           [] OTHER -> s]

\* +(n/d).toFixed(3) in thousandths: the nearest integer to n/d, a tie away
\* from zero (d > 0).
toFixed(n, d) ==
  IF n >= 0 THEN (2 * n + d) \div (2 * d) ELSE -((2 * (-n) + d) \div (2 * d))

\* p.round(3): each operand rounded; the rounding error of an end point is
\* carried into the next relative operand (deltaX, deltaY), and a closepath
\* restores the error of the contour's start.
RECURSIVE roundFrom(_, _, _, _, _)
roundFrom(segs, i, dx, dy, delta) ==
  IF i > Len(segs) THEN <<>>
  ELSE
    LET s == segs[i]
        rel == IsRelative(s.cmd)
        hasX == s.cmd \in {"M", "m", "L", "l", "H", "h"}
        hasY == s.cmd \in {"M", "m", "L", "l", "V", "v"}
        x == IF hasX THEN s.args[1] + (IF rel THEN delta.x ELSE 0) ELSE 0
        yi == IF hasX THEN 2 ELSE 1
        y == IF hasY THEN s.args[yi] + (IF rel THEN delta.y ELSE 0) ELSE 0
        rx == toFixed(x, dx)
        ry == toFixed(y, dy)
        out == CASE hasX /\ hasY -> Seg(s.cmd, << rx, ry >>)
                 [] hasX -> Seg(s.cmd, << rx >>)
                 [] hasY -> Seg(s.cmd, << ry >>)
                 [] OTHER -> s
        nd == CASE s.cmd \in {"Z", "z"} ->
                     [x |-> delta.sx, y |-> delta.sy, sx |-> delta.sx, sy |-> delta.sy]
                [] s.cmd \in {"M", "m"} ->
                     [x |-> x - rx * dx, y |-> y - ry * dy,
                      sx |-> x - rx * dx, sy |-> y - ry * dy]
                [] OTHER ->
                     [x |-> IF hasX THEN x - rx * dx ELSE delta.x,
                      y |-> IF hasY THEN y - ry * dy ELSE delta.y,
                      sx |-> delta.sx, sy |-> delta.sy]
    IN  << out >> \o roundFrom(segs, i + 1, dx, dy, nd)

round(segs, dx, dy) ==
  roundFrom(segs, 1, dx, dy, [x |-> 0, y |-> 0, sx |-> 0, sy |-> 0])

\* p.toString(): the command letter is written unless it repeats the one
\* before (a moveto is always written), then the operands.
toString(segs) ==
  LET RECURSIVE Out(_)
      Out(i) ==
        IF i > Len(segs) THEN <<>>
        ELSE LET s == segs[i]
                 skipped == i > 1 /\ s.cmd = segs[i - 1].cmd /\ s.cmd \notin {"M", "m"}
             IN  (IF skipped THEN <<>> ELSE << Word(s.cmd) >>)
                 \o [k \in 1..Len(s.args) |-> Num(s.args[k])]
                 \o Out(i + 1)
  IN  Out(1)

(***************************************************************************)
(* processSvgContent                                                       *)
(***************************************************************************)
\* d=" in /<path([^>]*)d="([^"]+)"([^>]*)>/gi is not anchored at the start
\* of an attribute name: it matches the end of any name that ends in d.
EndsInD(name) == name \in {"d", "id"}

\* ([^>]*) is greedy: of the double-quoted non-empty attributes whose name
\* ends in d, the regular expression captures the last one of the tag
\* (0: the tag does not match).
RECURSIVE CapturedAttr(_, _)
CapturedAttr(attrs, i) ==
  IF i = 0 THEN 0
  ELSE IF EndsInD(attrs[i].name) /\ attrs[i].q = "dq" /\ attrs[i].val /= <<>> THEN i
  ELSE CapturedAttr(attrs, i - 1)

\* Lines 71-82: parse, translate when the origin is not (0, 0), scale,
\* round to 3 decimals, serialize.
transformPath(d, frame, size) ==
  LET scaleX == Ratio(size, frame.oldWidth)
      scaleY == Ratio(size, frame.oldHeight)
      p0 == pathParse(d)
      p1 == IF frame.minX /= 0 \/ frame.minY /= 0
            THEN translate(p0, -frame.minX, -frame.minY) ELSE p0
      p2 == scale(p1, scaleX, scaleY)
  IN  toString(round(p2, scaleX.den, scaleY.den))

\* Step 4: the replace callback on one tag.
replacePath(el, frame, size) ==
  LET i == CapturedAttr(el.attrs, Len(el.attrs))
  IN  IF el.tag /= "path" \/ i = 0 THEN el
      ELSE IF SvgPathThrows(el.attrs[i].val) THEN el
      ELSE [el EXCEPT !.attrs[i].val = transformPath(el.attrs[i].val, frame, size)]

\* Step 5, first replace: /\s(width|height|viewBox)="[^"]*"/gi removes the
\* double-quoted declarations of every tag of the document.
stripFrame(content) ==
  [e \in 1..Len(content) |->
     [content[e] EXCEPT !.attrs =
        SelectSeq(content[e].attrs,
                  LAMBDA a: ~(a.name \in {"width", "height", "viewBox"} /\ a.q = "dq"))]]

RECURSIVE FirstTag(_, _, _)
FirstTag(content, tag, e) ==
  IF e > Len(content) THEN 0
  ELSE IF content[e].tag = tag THEN e
  ELSE FirstTag(content, tag, e + 1)

\* Step 5, second replace: /<svg([^>]*)>/i, the first svg tag gets the three
\* declarations appended.
injectFrame(content, size) ==
  LET e == FirstTag(content, "svg", 1)
  IN  IF e = 0 THEN content
      ELSE [content EXCEPT ![e].attrs = @ \o
              << Attr("width", "dq", << Num(size) >>),
                 Attr("height", "dq", << Num(size) >>),
                 Attr("viewBox", "dq", << Num(0), Num(0), Num(size), Num(size) >>) >>]

\* processSvgContent(content, size): threw is TRUE for the Error of line 59.
processSvgContent(content, size) ==
  LET frame == InferFrame(content)
  IN  IF NoDimensions(frame) THEN [threw |-> TRUE, out |-> <<>>]
      ELSE [threw |-> FALSE,
            out |-> injectFrame(
                      stripFrame([e \in 1..Len(content) |->
                                    replacePath(content[e], frame, size)]),
                      size)]

(***************************************************************************)
(* The component: state and handlers                                       *)
(***************************************************************************)
\* useState(24): the default target size, in thousandths.
DefaultSize == 24000

\* The values the target size input is set to: Number(e.target.value).
Sizes == {0, 24000, 48000}

P(n) == Num(n * 1000)

PathA == << Word("M"), P(10), P(10), Word("L"), P(90), P(90) >>

PathB == << Word("m"), P(10), P(20), Word("l"), P(1), P(1), Word("l"), P(1), P(1), Word("z") >>

PathC == << Word("M"), P(0), P(0), Word("h"), P(48), Word("v"), P(48), Word("h"), P(-48), Word("Z") >>

\* A truncated operand list.
PathBad == << Word("M"), P(10), P(10), Word("L") >>

ViewBox(x, y, w, h) == Attr("viewBox", "dq", << P(x), P(y), P(w), P(h) >>)

PathElem(d) == Elem("path", << Attr("d", "dq", d) >>)

\* The files the operator picks in Spec: name and text.
FilePool ==
  << [name |-> "a.svg",
      content |-> << Elem("svg", << ViewBox(0, 0, 100, 100) >>), PathElem(PathA) >>],
     [name |-> "a.svg",
      content |-> << Elem("svg", << ViewBox(10, 20, 9, 18) >>),
                     PathElem(PathBad), PathElem(PathB) >>],
     [name |-> "b.svg",
      content |-> << Elem("svg", << Attr("viewBox", "dq", << P(0), P(0), P(100) >>),
                                    Attr("width", "dq", << P(48) >>) >>),
                     PathElem(PathA) >>] >>

\* The attributes of the root tag of the documents of SpecDoc.
RootPool ==
  { << Attr("fill", "dq", << Word("none") >>), ViewBox(0, 0, 100, 100) >>,
    << ViewBox(10, 20, 9, 18) >>,
    << Attr("width", "dq", << P(48), Word("px") >>), Attr("height", "dq", << P(48) >>) >>,
    << Attr("width", "dq", << P(100) >>), Attr("height", "dq", << P(50) >>),
       ViewBox(0, 0, 100, 100) >>,
    << >>,
    << Attr("width", "dq", << P(48) >>) >>,
    << Attr("viewBox", "dq", << P(0), P(0), P(100) >>), Attr("height", "dq", << P(48) >>) >>,
    << ViewBox(0, 0, 100, 100), Attr("width", "sq", << P(100) >>),
       Attr("height", "sq", << P(100) >>) >>,
    << ViewBox(0, 0, 0, 0) >> }

\* The tags below the root of the documents of SpecDoc.
ElemPool ==
  { PathElem(PathA), PathElem(PathB), PathElem(PathC), PathElem(PathBad),
    Elem("path", << Attr("id", "dq", << Word("p1") >>), Attr("d", "dq", PathA) >>),
    Elem("path", << Attr("d", "dq", PathB), Attr("id", "dq", << Word("p2") >>) >>),
    Elem("rect", << Attr("x", "dq", << P(1) >>), Attr("width", "dq", << P(10) >>),
                    Attr("height", "dq", << P(10) >>) >>) }

\* Tags below the root of a document of SpecDoc.
MaxElems == 2

\* Items created over a run, files of one upload, uploads being read.
MaxItems == 2

MaxBatch == 2

MaxPending == 1

SeqsUpTo(S, n) == UNION { [1..k -> S] : k \in 0..n }

DocSet ==
  { << Elem("svg", root) >> \o below : root \in RootPool, below \in SeqsUpTo(ElemPool, MaxElems) }

\* processedContent: null
Null == <<>>

NoArchive == [made |-> FALSE, size |-> 0, entries |-> {}]

NoUpload == [made |-> FALSE, upload |-> <<>>]

NotRun == [done |-> FALSE, threw |-> FALSE, out |-> <<>>]

VARIABLES
  files,         \* useState<ProcessedFile[]>([])
  targetSize,    \* useState<number>(24)
  isProcessing,  \* useState(false)
  uploads,       \* handleFileUpload calls whose Promise.all has not resolved
  nextId,        \* the ids given so far (Math.random ids, taken as distinct)
  download,      \* the archive the step just taken handed to the browser
  joined,        \* the upload whose then callback the step just taken ran
  again          \* processSvgContent applied to its own output

vars == << files, targetSize, isProcessing, uploads, nextId, download, joined, again >>

RemoveAt(s, k) == SubSeq(s, 1, k - 1) \o SubSeq(s, k + 1, Len(s))

\* processFile without its try/catch deciding the status: the item is marked
\* success whether or not processSvgContent threw.
processFileAlwaysSuccess(file, size) ==
  [file EXCEPT !.processedContent = processSvgContent(file.originalContent, size).out,
               !.status = "success"]

\* The callback of batch.map in processBatch, with the targetSize the
\* closure holds.
processFile(file, size) ==
  LET result == processSvgContent(file.originalContent, size)
  IN  IF result.threw
      THEN [file EXCEPT !.status = "error", !.message = "Failed to scale"]
      ELSE [file EXCEPT !.processedContent = result.out, !.status = "success"]

\* setFiles(prev => prev.map(f => processed.find(p => p.id === f.id) || f))
mergeProcessed(prev, processed) ==
  [i \in 1..Len(prev) |->
     IF \E j \in 1..Len(processed) : processed[j].id = prev[i].id
     THEN processed[CHOOSE j \in 1..Len(processed) :
                      /\ processed[j].id = prev[i].id
                      /\ \A k \in 1..(j - 1) : processed[k].id /= prev[i].id]
     ELSE prev[i]]

\* processBatch(batch) run on the list prev, with the closure's targetSize.
processBatch(prev, batch, size) ==
  mergeProcessed(prev, [i \in 1..Len(batch) |-> processFile(batch[i], size)])

\* The newFiles, readers and closure of one handleFileUpload call.
NewUpload(picked, firstId, size) ==
  [newFiles |-> [i \in 1..Len(picked) |->
                   [id |-> firstId + i - 1, name |-> picked[i].name,
                    originalContent |-> <<>>, processedContent |-> Null,
                    status |-> "pending", message |-> ""]],
   source |-> picked,
   resolved |-> [i \in 1..Len(picked) |-> FALSE],
   targetSize |-> size]

\* handleFileUpload: the pending items and one reader per file; the then
\* callback keeps the processBatch, and so the targetSize, of this render.
handleFileUpload(picked) ==
  /\ Len(uploads) < MaxPending
  /\ nextId + Len(picked) - 1 <= MaxItems
  /\ uploads' = Append(uploads, NewUpload(picked, nextId, targetSize))
  /\ nextId' = nextId + Len(picked)
  /\ download' = NoArchive
  /\ joined' = NoUpload
  /\ UNCHANGED << files, targetSize, isProcessing, again >>

\* reader.onload of file index of upload k.
readerOnload(k, index) ==
  /\ k \in 1..Len(uploads)
  /\ index \in 1..Len(uploads[k].source)
  /\ ~uploads[k].resolved[index]
  /\ LET result == uploads[k].source[index].content
     IN  uploads' = [uploads EXCEPT
           ![k].newFiles[index].originalContent = IF result /= <<>> THEN result ELSE @,
           ![k].resolved[index] = TRUE]
  /\ download' = NoArchive
  /\ joined' = NoUpload
  /\ UNCHANGED << files, targetSize, isProcessing, nextId, again >>

\* Promise.race in place of Promise.all: some reader has resolved.
AnyResolved(upload) == \E i \in 1..Len(upload.resolved) : upload.resolved[i]

\* Promise.all(readers): every reader has resolved.
AllResolved(upload) == \A i \in 1..Len(upload.resolved) : upload.resolved[i]

\* Promise.all(readers).then(...)
uploadThen(k) ==
  /\ k \in 1..Len(uploads)
  /\ AllResolved(uploads[k])
  /\ files' = processBatch(files \o uploads[k].newFiles, uploads[k].newFiles,
                           uploads[k].targetSize)
  /\ isProcessing' = FALSE
  /\ uploads' = RemoveAt(uploads, k)
  /\ download' = NoArchive
  /\ joined' = [made |-> TRUE, upload |-> uploads[k]]
  /\ UNCHANGED << targetSize, nextId, again >>

\* onChange of the target size input.
setTargetSize(s) ==
  /\ s /= targetSize
  /\ targetSize' = s
  /\ download' = NoArchive
  /\ joined' = NoUpload
  /\ UNCHANGED << files, isProcessing, uploads, nextId, again >>

reprocessAll ==
  /\ files' = processBatch(files, files, targetSize)
  /\ isProcessing' = FALSE
  /\ download' = NoArchive
  /\ joined' = NoUpload
  /\ UNCHANGED << targetSize, uploads, nextId, again >>

\* folder.file(name, data): an entry of that name is replaced.  id is the
\* item the entry was made from.
zipFile(entries, file) ==
  { e \in entries : e.name /= file.name }
    \cup { [name |-> file.name, content |-> file.processedContent, id |-> file.id] }

RECURSIVE zipAll(_, _, _)
zipAll(entries, list, i) ==
  IF i > Len(list) THEN entries
  ELSE zipAll(IF list[i].status = "success" /\ list[i].processedContent /= Null
              THEN zipFile(entries, list[i]) ELSE entries,
              list, i + 1)

\* handleDownloadZip (the button is rendered while files.length > 0).
handleDownloadZip ==
  /\ Len(files) > 0
  /\ download' = [made |-> TRUE, size |-> targetSize, entries |-> zipAll({}, files, 1)]
  /\ joined' = NoUpload
  /\ UNCHANGED << files, targetSize, isProcessing, uploads, nextId, again >>

clearFiles ==
  /\ Len(files) > 0
  /\ files' = <<>>
  /\ download' = NoArchive
  /\ joined' = NoUpload
  /\ UNCHANGED << targetSize, isProcessing, uploads, nextId, again >>

Init ==
  /\ files = <<>>
  /\ targetSize = DefaultSize
  /\ isProcessing = FALSE
  /\ uploads = <<>>
  /\ nextId = 1
  /\ download = NoArchive
  /\ joined = NoUpload
  /\ again = NotRun

Next ==
  \/ \E picked \in SeqsUpTo(1..Len(FilePool), MaxBatch) :
        picked /= <<>> /\ handleFileUpload([i \in 1..Len(picked) |-> FilePool[picked[i]]])
  \/ \E k \in 1..MaxPending, index \in 1..MaxBatch : readerOnload(k, index)
  \/ \E k \in 1..MaxPending : uploadThen(k)
  \/ \E s \in Sizes : setTargetSize(s)
  \/ reprocessAll
  \/ handleDownloadZip
  \/ clearFiles

Spec == Init /\ [][Next]_vars

(***************************************************************************)
(* One document, any of DocSet, taken through the component: the operator  *)
(* has picked it at some target size, it is normalized, archived, and the  *)
(* output normalized again.                                                *)
(***************************************************************************)
InitDoc ==
  /\ files = <<>>
  /\ targetSize \in Sizes
  /\ isProcessing = FALSE
  /\ \E d \in DocSet :
        uploads = << NewUpload(<< [name |-> "icon.svg", content |-> d] >>, 1, targetSize) >>
  /\ nextId = 2
  /\ download = NoArchive
  /\ joined = NoUpload
  /\ again = NotRun

\* processSvgContent on the processed content of the item, at the same size.
processAgain ==
  /\ Len(files) = 1
  /\ files[1].status = "success"
  /\ ~again.done
  /\ LET result == processSvgContent(files[1].processedContent, targetSize)
     IN  again' = [done |-> TRUE, threw |-> result.threw, out |-> result.out]
  /\ UNCHANGED << files, targetSize, isProcessing, uploads, nextId, download, joined >>

NextDoc ==
  \/ readerOnload(1, 1)
  \/ uploadThen(1)
  \/ reprocessAll
  \/ handleDownloadZip
  \/ processAgain

SpecDoc == InitDoc /\ [][NextDoc]_vars

(***************************************************************************)
(* Properties                                                              *)
(***************************************************************************)
\* The data attribute of a tag: the index of its attribute named d, 0 if none.
RECURSIVE AttrNamed(_, _, _)
AttrNamed(attrs, name, i) ==
  IF i > Len(attrs) THEN 0
  ELSE IF attrs[i].name = name THEN i
  ELSE AttrNamed(attrs, name, i + 1)

DataAttr(el) == AttrNamed(el.attrs, "d", 1)

IsPath(el) == el.tag = "path" /\ DataAttr(el) /= 0

PathData(el) == el.attrs[DataAttr(el)].val

Declared(attrs, name) == SelectSeq(attrs, LAMBDA a: a.name = name)

\* v is n * ratio to within one thousandth.
Scaled(v, n, ratio) == Abs(v * ratio.den - n * ratio.num) <= ratio.den

\* Segment out is segment in under the frame: absolute operands translated
\* and scaled, relative operands scaled only.
SegMapped(in, out, frame, size) ==
  LET rx == Ratio(size, frame.oldWidth)
      ry == Ratio(size, frame.oldHeight)
      ox == IF IsRelative(in.cmd) THEN 0 ELSE frame.minX
      oy == IF IsRelative(in.cmd) THEN 0 ELSE frame.minY
  IN  /\ out.cmd = in.cmd
      /\ Len(out.args) = Len(in.args)
      /\ in.cmd \in {"M", "m", "L", "l"} =>
           Scaled(out.args[1], in.args[1] - ox, rx) /\ Scaled(out.args[2], in.args[2] - oy, ry)
      /\ in.cmd \in {"H", "h"} => Scaled(out.args[1], in.args[1] - ox, rx)
      /\ in.cmd \in {"V", "v"} => Scaled(out.args[1], in.args[1] - oy, ry)

PathMapped(dIn, dOut, frame, size) ==
  LET in == pathParse(dIn)
      out == pathParse(dOut)
  IN  /\ Len(out) = Len(in)
      /\ \A k \in 1..Len(in) : SegMapped(in[k], out[k], frame, size)

\* C1: in the output of processSvgContent every well-formed path of the
\* document has each absolute operand translated by the frame origin and
\* scaled by size/width, size/height, and each relative operand scaled only
\* (a leading moveto is absolute, as SVG defines it).
C1_EveryPathMapped ==
  \A i \in 1..Len(files) :
    files[i].status = "success" =>
      LET orig == files[i].originalContent
          proc == files[i].processedContent
      IN  \A e \in 1..Len(orig) :
            IsPath(orig[e]) /\ ~pathErr(PathData(orig[e])) =>
              /\ IsPath(proc[e])
              /\ PathMapped(PathData(orig[e]), PathData(proc[e]), InferFrame(orig), targetSize)

\* The paths the replace callback of step 4 captures are mapped so; used to
\* see that C1 fails only where the callback captures another attribute.
CapturedPathsMapped ==
  \A i \in 1..Len(files) :
    files[i].status = "success" =>
      LET orig == files[i].originalContent
          proc == files[i].processedContent
      IN  \A e \in 1..Len(orig) :
            /\ IsPath(orig[e]) /\ ~pathErr(PathData(orig[e]))
            /\ CapturedAttr(orig[e].attrs, Len(orig[e].attrs)) = DataAttr(orig[e])
            => PathMapped(PathData(orig[e]), PathData(proc[e]), InferFrame(orig), targetSize)

\* The root tag of a document: its first tag, the svg element.
Root(content) == content[1]

CanonicalBox(size) == << Num(0), Num(0), Num(size), Num(size) >>

\* C3: the root of every output carries exactly one viewBox, "0 0 s s",
\* exactly one width, s, and exactly one height, s.
C3_OneCanonicalFrame ==
  \A i \in 1..Len(files) :
    files[i].status = "success" =>
      LET attrs == Root(files[i].processedContent).attrs
      IN  /\ Len(Declared(attrs, "viewBox")) = 1
          /\ Declared(attrs, "viewBox")[1].val = CanonicalBox(targetSize)
          /\ Len(Declared(attrs, "width")) = 1
          /\ Declared(attrs, "width")[1].val = << Num(targetSize) >>
          /\ Len(Declared(attrs, "height")) = 1
          /\ Declared(attrs, "height")[1].val = << Num(targetSize) >>

\* The root of every output ends in the three canonical declarations, and
\* no other double-quoted width, height or viewBox is left on it.
RootEndsCanonical ==
  \A i \in 1..Len(files) :
    files[i].status = "success" =>
      LET attrs == Root(files[i].processedContent).attrs
          n == Len(attrs)
      IN  /\ n >= 3
          /\ attrs[n - 2] = Attr("width", "dq", << Num(targetSize) >>)
          /\ attrs[n - 1] = Attr("height", "dq", << Num(targetSize) >>)
          /\ attrs[n] = Attr("viewBox", "dq", CanonicalBox(targetSize))
          /\ \A k \in 1..(n - 3) :
               ~(attrs[k].name \in {"width", "height", "viewBox"} /\ attrs[k].q = "dq")

\* The attributes of tag e of a document that normalization is not to
\* change: all but d on a path, and width, height, viewBox on the root.
Kept(content, e) ==
  SelectSeq(content[e].attrs,
            LAMBDA a: /\ ~(content[e].tag = "path" /\ a.name = "d")
                      /\ ~(e = 1 /\ a.name \in {"width", "height", "viewBox"}))

\* C9: the output has the tags of the input, and every attribute other
\* than d of a path and width, height, viewBox of the root is unchanged.
C9_OtherAttributesKept ==
  \A i \in 1..Len(files) :
    files[i].status = "success" =>
      LET orig == files[i].originalContent
          proc == files[i].processedContent
      IN  /\ Len(proc) = Len(orig)
          /\ \A e \in 1..Len(orig) :
               proc[e].tag = orig[e].tag /\ Kept(proc, e) = Kept(orig, e)

\* C5: normalizing an output again at the same size (a positive one) gives
\* the same output.
C5_Idempotent ==
  again.done /\ targetSize > 0 =>
    ~again.threw /\ again.out = files[1].processedContent

\* The document declares a frame: a viewBox of four numbers, or both a
\* width and a height, in either quote style.
DeclaresFrame(content) ==
  LET attrs == AllAttrs(content)
  IN  \/ \E k \in 1..Len(attrs) :
           /\ attrs[k].name = "viewBox"
           /\ Len(attrs[k].val) = 4
           /\ \A n \in 1..4 : IsNum(attrs[k].val[n])
      \/ Declared(attrs, "width") /= <<>> /\ Declared(attrs, "height") /= <<>>

\* C2: an item whose document declares no frame has status error and no
\* processed content, and an archive holds no entry made from it.
C2_NoFrameIsError ==
  \A i \in 1..Len(files) :
    ~DeclaresFrame(files[i].originalContent) =>
      /\ files[i].status = "error"
      /\ files[i].processedContent = Null
      /\ \A entry \in download.entries : entry.id /= files[i].id

\* An archive was made while the list held an item without a frame.
C2_Witness ==
  /\ download.made
  /\ \E i \in 1..Len(files) :
       ~DeclaresFrame(files[i].originalContent) /\ files[i].status = "error"

\* C4: in an item with a frame, a path whose string is malformed keeps its
\* string, every other path is transformed, and the status is success.
C4_MalformedPathKept ==
  \A i \in 1..Len(files) :
    LET orig == files[i].originalContent
        proc == files[i].processedContent
    IN  /\ ~NoDimensions(InferFrame(orig))
        /\ \E e \in 1..Len(orig) : IsPath(orig[e]) /\ pathErr(PathData(orig[e]))
        => /\ files[i].status = "success"
           /\ \A e \in 1..Len(orig) :
                IsPath(orig[e]) =>
                  IF pathErr(PathData(orig[e]))
                  THEN PathData(proc[e]) = PathData(orig[e])
                  ELSE \E s \in Sizes :
                         PathMapped(PathData(orig[e]), PathData(proc[e]), InferFrame(orig), s)

\* C6: a step taken while the target size, and the one every upload being
\* read holds, is zero gives no item a new processed content or the status
\* success.
C6_ZeroSizeRejected ==
  [][ (targetSize = 0 /\ \A k \in 1..Len(uploads) : uploads[k].targetSize = 0) =>
        \A j \in 1..Len(files') :
          IF \E i \in 1..Len(files) : files[i].id = files'[j].id
          THEN \E i \in 1..Len(files) :
                 /\ files[i].id = files'[j].id
                 /\ files[i].processedContent = files'[j].processedContent
                 /\ files'[j].status = "success" => files[i].status = "success"
          ELSE files'[j].status /= "success" /\ files'[j].processedContent = Null ]_vars

\* C7: the archive holds one entry per success item, as many entries as
\* success items, each with the name and the processed content of its item.
C7_OneEntryPerSuccess ==
  download.made =>
    LET ok == { i \in 1..Len(files) : files[i].status = "success" }
    IN  /\ Cardinality(download.entries) = Cardinality(ok)
        /\ \A i \in ok : \E entry \in download.entries :
             /\ entry.id = files[i].id
             /\ entry.name = files[i].name
             /\ entry.content = files[i].processedContent
        /\ \A entry \in download.entries : \E i \in ok : entry.id = files[i].id

\* C8: no item of an upload being read is processed or listed; when the then
\* callback of an upload has run every read of it had completed, and each of
\* its items holds the text of its own file and the outcome of
\* processSvgContent on that text.
C8_ReadsJoinedAndMatched ==
  /\ \A k \in 1..Len(uploads) : \A i \in 1..Len(uploads[k].newFiles) :
       /\ uploads[k].newFiles[i].status = "pending"
       /\ uploads[k].newFiles[i].processedContent = Null
       /\ \A j \in 1..Len(files) : files[j].id /= uploads[k].newFiles[i].id
  /\ joined.made =>
       LET u == joined.upload
       IN  /\ \A i \in 1..Len(u.resolved) : u.resolved[i]
           /\ \A i \in 1..Len(u.source) : \E j \in 1..Len(files) :
                /\ files[j].id = u.newFiles[i].id
                /\ files[j].name = u.source[i].name
                /\ files[j].originalContent = u.source[i].content
                /\ \E s \in Sizes :
                     LET r == processSvgContent(u.source[i].content, s)
                     IN  IF r.threw
                         THEN files[j].status = "error" /\ files[j].processedContent = Null
                         ELSE files[j].status = "success" /\ files[j].processedContent = r.out

\* The then callback of an upload of two files of different text has run.
C8_Witness ==
  /\ joined.made
  /\ Len(joined.upload.source) = 2
  /\ joined.upload.source[1].content /= joined.upload.source[2].content
  /\ Len(files) = 2
  /\ files[1].status = "success" /\ files[2].status = "error"

\* C10: every entry of an archive named for target size s is the
\* normalization of its item's original text at s.
C10_ArchiveAtNamedSize ==
  download.made =>
    \A entry \in download.entries : \E i \in 1..Len(files) :
      /\ files[i].id = entry.id
      /\ LET r == processSvgContent(files[i].originalContent, download.size)
         IN  ~r.threw /\ entry.content = r.out

====
